---- MODULE Spec2Model ----
(***************************************************************************)
(* Model of the soteria circuit breaker (src/soteria.go).                  *)
(*                                                                         *)
(* Several goroutines call Execute and State on one CircuitBreaker.  Each  *)
(* statement of Execute that touches the shared fields is one step, so the *)
(* interleavings of the unlocked parts of Execute are explored; generate   *)
(* and each Stats method are taken as one step.  The four input actions    *)
(* and State run under cb.mutex.                                           *)
(*                                                                         *)
(* The state machine itself (persephone.AbstractFSM) is an imported        *)
(* package.  Process is modelled on the rule table that init() installs:   *)
(* a state/input pair without rule is an error; otherwise the FSM moves to *)
(* the rule's target and runs the rule's input action, which therefore     *)
(* sees the target state when it calls generate.                           *)
(*                                                                         *)
(* Time is counted in seconds; the zero time.Time is 0 and the wall clock  *)
(* starts at 1.                                                            *)
(***************************************************************************)
EXTENDS Integers, Sequences, FiniteSets, TLC

\* ------------------------------------------------------------------ bounds
MaxTime == 3
MaxCalls == 3
NumThreads == 2

Threads == 1..NumThreads

\* --------------------------------------------------------------- constants
StateClosed == "Closed"
StateHalfOpen == "HalfOpen"
StateOpen == "Open"

Ok == "Ok"
NotOk == "NotOk"

defaultTimeout == 60

ErrTooManyRequests == "ErrTooManyRequests"
ErrOpenState == "ErrOpenState"
\* the error persephone's Process returns when no rule matches
ErrInvalidTransition == "ErrInvalidTransition"
\* what the guarded operation returns: nil or its own error
OpNil == "nil"
OpErr == "operr"

NoTime == 0
NoThread == 0

\* ------------------------------------------------------- uint32 arithmetic
\* A uint32 is kept as the integer with the same 32-bit pattern: values from
\* 2^31 up appear negative (-1 is 0xFFFFFFFF).  Arithmetic is done on the two
\* 16-bit limbs, a delta being the pair <<hi, lo>>.
Limb == 65536

Hi(x) == (x \div Limb) % Limb
Lo(x) == x % Limb

FromLimbs(hi, lo) ==
  IF 2 * hi >= Limb THEN (hi - Limb) * Limb + lo ELSE hi * Limb + lo

One32 == <<0, 1>>

\* -x for a uint32 x, as limbs
Neg32(x) ==
  IF Lo(x) = 0 THEN <<(Limb - Hi(x)) % Limb, 0>>
               ELSE <<Limb - 1 - Hi(x), Limb - Lo(x)>>

\* atomic.AddUint32(&x, d): x + d modulo 2^32
AddUint32(x, d) ==
  LET lo == Lo(x) + d[2]
      hi == Hi(x) + d[1] + (lo \div Limb)
  IN  FromLimbs(hi % Limb, lo % Limb)

\* a < b for two uint32
Less32(a, b) == IF Hi(a) # Hi(b) THEN Hi(a) < Hi(b) ELSE Lo(a) < Lo(b)

\* k * a for a small k and a uint32 a, without the 32-bit wrap: <<high, lo>>
Times(k, a) ==
  <<k * Hi(a) + ((k * Lo(a)) \div Limb), (k * Lo(a)) % Limb>>

\* a + b for two uint32, without the 32-bit wrap: <<high, lo>>
Sum(a, b) ==
  <<Hi(a) + Hi(b) + ((Lo(a) + Lo(b)) \div Limb), (Lo(a) + Lo(b)) % Limb>>

\* v <= w for two unwrapped values
WideLeq(v, w) == IF v[1] # w[1] THEN v[1] < w[1] ELSE v[2] <= w[2]

\* ------------------------------------------------------------------- Stats
ZeroStats == [Requests |-> 0, TotalSuccesses |-> 0, TotalFailures |-> 0,
              ConsecutiveSuccesses |-> 0, ConsecutiveFailures |-> 0]

request(c) == [c EXCEPT !.Requests = AddUint32(@, One32)]

\* Stats.success: the two increments, then the reset of ConsecutiveFailures.
\* The reset is atomic.AddUint32(&f, -f): the operand -f is read first, by a
\* plain load, and added afterwards.
successAdds(c) ==
  [c EXCEPT !.TotalSuccesses = AddUint32(@, One32),
            !.ConsecutiveSuccesses = AddUint32(@, One32)]

successReset(c, read) ==
  [c EXCEPT !.ConsecutiveFailures = AddUint32(@, Neg32(read))]

success(c) == successReset(successAdds(c), c.ConsecutiveFailures)

\* Stats.failure, likewise
failureAdds(c) ==
  [c EXCEPT !.TotalFailures = AddUint32(@, One32),
            !.ConsecutiveFailures = AddUint32(@, One32)]

failureReset(c, read) ==
  [c EXCEPT !.ConsecutiveSuccesses = AddUint32(@, Neg32(read))]

failure(c) == failureReset(failureAdds(c), c.ConsecutiveSuccesses)

\* Stats.clear: every counter is reset by adding the negation of what was
\* read of it
clearAdds(c, read) ==
  [c EXCEPT !.Requests = AddUint32(@, Neg32(read.Requests)),
            !.TotalSuccesses = AddUint32(@, Neg32(read.TotalSuccesses)),
            !.TotalFailures = AddUint32(@, Neg32(read.TotalFailures)),
            !.ConsecutiveSuccesses =
               AddUint32(@, Neg32(read.ConsecutiveSuccesses)),
            !.ConsecutiveFailures =
               AddUint32(@, Neg32(read.ConsecutiveFailures))]

clear(c) == clearAdds(c, c)

AllZero(c) == c = ZeroStats

\* ---------------------------------------------------------------- Settings
\* ReadyToTrip is a caller-supplied function; three are enumerated:
\*   "nil"   - not set, New installs defaultReadyToTrip
\*   "ratio" - the predicate of src/example/main.go
\*   "first" - trips on the first recorded failure
ReadyToTripKinds == {"nil", "ratio", "first"}

\* MaxRequests and Timeout are each taken unset (0) and set
SettingsSet ==
  {st \in [MaxRequests : {0, 2}, Interval : {0, 1}, Timeout : {0, 1},
           ReadyToTrip : ReadyToTripKinds] :
     (st.MaxRequests = 0) = (st.Timeout = 0)}

defaultReadyToTrip(s) == Less32(5, s.ConsecutiveFailures)

\* failureRatio >= 0.6 with failureRatio = TotalFailures / Requests in
\* float64: 0/0 is NaN (comparison false), n/0 is +Inf (comparison true)
exampleReadyToTrip(s) ==
  /\ ~Less32(s.Requests, 3)
  /\ WideLeq(Times(6, s.Requests), Times(10, s.TotalFailures))

firstFailureReadyToTrip(s) == ~Less32(s.ConsecutiveFailures, 1)

\* New: the defaults applied to the settings
NewMaxRequests(st) == IF st.MaxRequests = 0 THEN 1 ELSE st.MaxRequests
NewTimeout_kept(st) == st.Timeout

NewTimeout(st) == IF st.Timeout = 0 THEN defaultTimeout ELSE st.Timeout
NewReadyToTrip(st) == IF st.ReadyToTrip = "nil" THEN "default" ELSE st.ReadyToTrip

VARIABLES
  settings,    \* the Settings given to New
  state,       \* AbstractFSM current state
  stats,       \* cb.stats
  expiry,      \* cb.expiry
  generation,  \* cb.generation
  mutex,       \* holder of cb.mutex, NoThread when free
  clock,       \* wall clock
  calls,       \* number of Execute/State calls started
  pc,          \* per goroutine: position in Execute / State
  now,         \* per goroutine: local variable now
  opres,       \* per goroutine: error returned by req()
  act,         \* per goroutine: input action Process is running
  ret,         \* per goroutine: value returned by the last call
  invoked,     \* per goroutine: times req() ran in the current call
  callState,   \* per goroutine: state when the call read the clock
  callExpiry,  \* per goroutine: expiry when the call read the clock
  tripped,     \* per goroutine: readyToTrip result seen by ClosedNotOkAction
  admitted,    \* per goroutine: generation in which request() counted the call
  reg          \* per goroutine: values loaded from the breaker, not yet used

vars == <<settings, state, stats, expiry, generation, mutex, clock, calls,
          pc, now, opres, act, ret, invoked, callState, callExpiry, tripped,
          admitted, reg>>

\* nothing loaded
ZeroReg == [generation |-> 0, stats |-> ZeroStats]

cbVars == <<state, stats, expiry, generation>>
ghostVars == <<invoked, callState, callExpiry, tripped, admitted>>

maxRequests == NewMaxRequests(settings)
interval == settings.Interval
timeout == NewTimeout(settings)

readyToTrip(s) ==
  CASE NewReadyToTrip(settings) = "default" -> defaultReadyToTrip(s)
    [] NewReadyToTrip(settings) = "ratio" -> exampleReadyToTrip(s)
    [] OTHER -> firstFailureReadyToTrip(s)

\* ---------------------------------------------------------------- generate
\* time.Time.Add
TimeAdd(t, d) == t + d

\* the expiry generate sets for FSM state s
generateExpiry(s, t) ==
  CASE s = StateClosed -> IF interval = 0 THEN NoTime ELSE TimeAdd(t, interval)
    [] s = StateOpen -> TimeAdd(t, timeout)
    [] OTHER -> NoTime

\* generate(now), statement by statement.  cb.generation++ is a plain load
\* and a plain store; clear() loads its operands and adds their negations;
\* the switch then writes expiry.  Execute runs all of it without cb.mutex.
generateLoad(t) ==
  reg' = [reg EXCEPT ![t].generation = generation]

generateStore(t) ==
  /\ generation' = reg[t].generation + 1
  /\ reg' = [reg EXCEPT ![t].stats = stats]

generateClear(t, tm) ==
  /\ stats' = clearAdds(stats, reg[t].stats)
  /\ expiry' = generateExpiry(state, tm)
  /\ reg' = [reg EXCEPT ![t] = ZeroReg]

Before_inclusive(a, b) == a <= b

\* time.Time.Before
Before(a, b) == a < b

IsZero(a) == a = NoTime

\* currentState(now): TRUE when it calls generate
currentStateGenerates(s, e, t) ==
  CASE s = StateClosed -> ~IsZero(e) /\ Before(e, t)
    [] s = StateOpen -> Before(e, t)
    [] OTHER -> FALSE

\* ---------------------------------------------------------------- the FSM
\* the rules init() adds: <<target, action>> per <<source, input>>
Rules ==
  [x \in {<<StateClosed, NotOk>>, <<StateClosed, Ok>>, <<StateOpen, NotOk>>,
          <<StateHalfOpen, Ok>>, <<StateHalfOpen, NotOk>>} |->
    CASE x = <<StateClosed, NotOk>> -> <<StateOpen, "ClosedNotOkAction">>
      [] x = <<StateClosed, Ok>> -> <<StateClosed, "ClosedOkAction">>
      [] x = <<StateOpen, NotOk>> -> <<StateOpen, "nil">>
      [] x = <<StateHalfOpen, Ok>> -> <<StateClosed, "HalfOpenOkAction">>
      [] x = <<StateHalfOpen, NotOk>> -> <<StateOpen, "HalfOpenNotOkAction">>]

HasRule(s, in) == <<s, in>> \in DOMAIN Rules
RuleTarget(s, in) == Rules[<<s, in>>][1]
RuleAction(s, in) == Rules[<<s, in>>][2]

\* the input action a belongs to a rule whose target differs from its source
ChangesState(a) ==
  \E x \in DOMAIN Rules : Rules[x][2] = a /\ Rules[x][1] # x[1]

\* -------------------------------------------------------------------- Init
\* New(settings): the FSM starts in its initial state and generate(time.Now())
\* opens the first generation
Init ==
  /\ settings \in SettingsSet
  /\ state = StateClosed
  /\ clock = 1
  /\ generation = 0 + 1
  /\ stats = clear(ZeroStats)
  /\ expiry = generateExpiry(state, clock)
  /\ mutex = NoThread
  /\ calls = 0
  /\ pc = [t \in Threads |-> "idle"]
  /\ now = [t \in Threads |-> NoTime]
  /\ opres = [t \in Threads |-> OpNil]
  /\ act = [t \in Threads |-> "nil"]
  /\ ret = [t \in Threads |-> "none"]
  /\ invoked = [t \in Threads |-> 0]
  /\ callState = [t \in Threads |-> "none"]
  /\ callExpiry = [t \in Threads |-> NoTime]
  /\ tripped = [t \in Threads |-> "none"]
  /\ admitted = [t \in Threads |-> 0]
  /\ reg = [t \in Threads |-> ZeroReg]

\* ------------------------------------------------------------------- clock
Tick ==
  /\ clock < MaxTime
  /\ clock' = clock + 1
  /\ UNCHANGED <<settings, cbVars, mutex, calls, pc, now, opres, act, ret,
                 ghostVars, reg>>

\* ----------------------------------------------------------------- Execute
\* a goroutine enters Execute
CallExecute(t) ==
  /\ pc[t] = "idle"
  /\ calls < MaxCalls
  /\ calls' = calls + 1
  /\ pc' = [pc EXCEPT ![t] = "E178"]
  /\ UNCHANGED <<settings, cbVars, mutex, clock, now, opres, act, ret,
                 ghostVars, reg>>

\* now = time.Now()
ExecuteNow(t) ==
  /\ pc[t] = "E178"
  /\ now' = [now EXCEPT ![t] = clock]
  /\ callState' = [callState EXCEPT ![t] = state]
  /\ callExpiry' = [callExpiry EXCEPT ![t] = expiry]
  /\ pc' = [pc EXCEPT ![t] = "E179"]
  /\ UNCHANGED <<settings, cbVars, mutex, clock, calls, opres, act, ret,
                 invoked, tripped, admitted, reg>>

\* cb.currentState(now): the switch
ExecuteCurrentState(t) ==
  /\ pc[t] = "E179"
  /\ pc' = [pc EXCEPT ![t] =
             IF currentStateGenerates(state, expiry, now[t])
             THEN "E179g" ELSE "E181"]
  /\ UNCHANGED <<settings, cbVars, mutex, clock, calls, now, opres, act, ret,
                 ghostVars, reg>>

\* cb.currentState(now): the call of generate
ExecuteGenerate(t) ==
  /\ pc[t] = "E179g"
  /\ generateLoad(t)
  /\ pc' = [pc EXCEPT ![t] = "E179h"]
  /\ UNCHANGED <<settings, cbVars, mutex, clock, calls, now, opres, act, ret,
                 ghostVars>>

ExecuteGenerateStore(t) ==
  /\ pc[t] = "E179h"
  /\ generateStore(t)
  /\ pc' = [pc EXCEPT ![t] = "E179i"]
  /\ UNCHANGED <<settings, state, stats, expiry, mutex, clock, calls, now,
                 opres, act, ret, ghostVars>>

ExecuteGenerateClear(t) ==
  /\ pc[t] = "E179i"
  /\ generateClear(t, now[t])
  /\ pc' = [pc EXCEPT ![t] = "E181"]
  /\ UNCHANGED <<settings, state, generation, mutex, clock, calls, now,
                 opres, act, ret, ghostVars>>

RejectsOpen_skipped(s) == s = StateHalfOpen

\* the admission test of line 181
RejectsOpen(s) == s = StateOpen

\* the admission test of line 185
RejectsTooMany(s, c) ==
  s = StateHalfOpen /\ ~Less32(c.Requests, maxRequests)

ExecuteCheckOpen(t) ==
  /\ pc[t] = "E181"
  /\ IF RejectsOpen(state)
     THEN /\ ret' = [ret EXCEPT ![t] = ErrOpenState]
          /\ pc' = [pc EXCEPT ![t] = "return"]
     ELSE /\ pc' = [pc EXCEPT ![t] = "E185"]
          /\ ret' = ret
  /\ UNCHANGED <<settings, cbVars, mutex, clock, calls, now, opres, act,
                 ghostVars, reg>>

ExecuteCheckHalfOpen(t) ==
  /\ pc[t] = "E185"
  /\ IF RejectsTooMany(state, stats)
     THEN /\ ret' = [ret EXCEPT ![t] = ErrTooManyRequests]
          /\ pc' = [pc EXCEPT ![t] = "return"]
     ELSE /\ pc' = [pc EXCEPT ![t] = "E189"]
          /\ ret' = ret
  /\ UNCHANGED <<settings, cbVars, mutex, clock, calls, now, opres, act,
                 ghostVars, reg>>

\* cb.stats.request()
ExecuteRequest(t) ==
  /\ pc[t] = "E189"
  /\ stats' = request(stats)
  /\ admitted' = [admitted EXCEPT ![t] = generation]
  /\ pc' = [pc EXCEPT ![t] = "E191"]
  /\ UNCHANGED <<settings, state, expiry, generation, mutex, clock, calls,
                 now, opres, act, ret, invoked, callState, callExpiry,
                 tripped, reg>>

\* req() is called
ExecuteInvoke(t) ==
  /\ pc[t] = "E191"
  /\ invoked' = [invoked EXCEPT ![t] = @ + 1]
  /\ pc' = [pc EXCEPT ![t] = "inflight"]
  /\ UNCHANGED <<settings, cbVars, mutex, clock, calls, now, opres, act, ret,
                 callState, callExpiry, tripped, admitted, reg>>

\* req() returns, with an error or without
OperationReturns(t) ==
  /\ pc[t] = "inflight"
  /\ \E e \in {OpNil, OpErr} :
       /\ opres' = [opres EXCEPT ![t] = e]
       /\ pc' = [pc EXCEPT ![t] = IF e = OpErr THEN "E194" ELSE "E202"]
  /\ UNCHANGED <<settings, cbVars, mutex, clock, calls, now, act, ret,
                 ghostVars, reg>>

\* the input Execute feeds for what req() returned
InputOf(e) == IF e = OpErr THEN NotOk ELSE Ok

\* cb.Process(input): no rule is an error; else the FSM moves to the rule's
\* target and the rule's input action is run
Process(t) ==
  /\ pc[t] \in {"E194", "E202"}
  /\ LET in == InputOf(opres[t]) IN
     IF ~HasRule(state, in)
     THEN /\ ret' = [ret EXCEPT ![t] = ErrInvalidTransition]
          /\ pc' = [pc EXCEPT ![t] = "return"]
          /\ UNCHANGED <<state, act>>
     ELSE /\ state' = RuleTarget(state, in)
          /\ act' = [act EXCEPT ![t] = RuleAction(state, in)]
          /\ IF RuleAction(state, in) = "nil"
             THEN /\ ret' = [ret EXCEPT ![t] = opres[t]]
                  /\ pc' = [pc EXCEPT ![t] = "return"]
             ELSE /\ ret' = ret
                  /\ pc' = [pc EXCEPT ![t] = "lock"]
  /\ UNCHANGED <<settings, stats, expiry, generation, mutex, clock, calls,
                 now, opres, ghostVars, reg>>

\* cb.mutex.Lock() at the head of an input action
ActionLock(t) ==
  /\ pc[t] = "lock"
  /\ mutex = NoThread
  /\ mutex' = t
  /\ pc' = [pc EXCEPT ![t] = "action"]
  /\ UNCHANGED <<settings, cbVars, clock, calls, now, opres, act, ret,
                 ghostVars, reg>>

\* the four input actions: the Stats method each calls first, and what
\* it tests on the counters to decide whether generate runs
ClosedOkAction == [records |-> "success", generates |-> "never"]
HalfOpenOkAction == [records |-> "success", generates |-> "maxRequests"]
ClosedNotOkAction == [records |-> "failure", generates |-> "readyToTrip"]
HalfOpenNotOkAction == [records |-> "nothing", generates |-> "always"]

RunAction(a) ==
  CASE a = "ClosedOkAction" -> ClosedOkAction
    [] a = "HalfOpenOkAction" -> HalfOpenOkAction
    [] a = "ClosedNotOkAction" -> ClosedNotOkAction
    [] OTHER -> HalfOpenNotOkAction

\* the test of the input action a on the counters c
ActionGenerates(a, c) ==
  CASE RunAction(a).generates = "never" -> FALSE
    [] RunAction(a).generates = "maxRequests" ->
         ~Less32(c.ConsecutiveSuccesses, maxRequests)
    [] RunAction(a).generates = "readyToTrip" -> readyToTrip(c)
    [] OTHER -> TRUE

Unlock_missing(t) == t

\* the deferred cb.mutex.Unlock(): the holder after goroutine t unlocks
Unlock(t) == NoThread

\* success() / failure(): the increments and the load of the counter to
\* reset
ActionBody(t) ==
  /\ pc[t] = "action"
  /\ CASE RunAction(act[t]).records = "success" ->
            /\ stats' = successAdds(stats)
            /\ reg' = [reg EXCEPT ![t].stats.ConsecutiveFailures =
                                     stats.ConsecutiveFailures]
       [] RunAction(act[t]).records = "failure" ->
            /\ stats' = failureAdds(stats)
            /\ reg' = [reg EXCEPT ![t].stats.ConsecutiveSuccesses =
                                     stats.ConsecutiveSuccesses]
       [] OTHER -> UNCHANGED <<stats, reg>>
  /\ pc' = [pc EXCEPT ![t] = "action2"]
  /\ UNCHANGED <<settings, state, expiry, generation, mutex, clock, calls,
                 now, opres, act, ret, ghostVars>>

\* success() / failure(): the reset; then the action's test.  Without
\* generate the action returns, the mutex is unlocked and Execute returns
\* what req() returned.
ActionReset(t) ==
  /\ pc[t] = "action2"
  /\ stats' =
       CASE RunAction(act[t]).records = "success" ->
              successReset(stats, reg[t].stats.ConsecutiveFailures)
         [] RunAction(act[t]).records = "failure" ->
              failureReset(stats, reg[t].stats.ConsecutiveSuccesses)
         [] OTHER -> stats
  /\ reg' = [reg EXCEPT ![t] = ZeroReg]
  /\ tripped' = [tripped EXCEPT ![t] =
       IF RunAction(act[t]).generates # "readyToTrip" THEN "none"
       ELSE IF ActionGenerates(act[t], stats') THEN "yes" ELSE "no"]
  /\ IF ActionGenerates(act[t], stats')
     THEN /\ pc' = [pc EXCEPT ![t] = "actiong"]
          /\ UNCHANGED <<mutex, ret>>
     ELSE /\ mutex' = Unlock(t)
          /\ ret' = [ret EXCEPT ![t] = opres[t]]
          /\ pc' = [pc EXCEPT ![t] = "return"]
  /\ UNCHANGED <<settings, state, expiry, generation, clock, calls, now,
                 opres, act, invoked, callState, callExpiry, admitted>>

\* cb.generate(time.Now()) in an input action
ActionGenerate(t) ==
  /\ pc[t] = "actiong"
  /\ now' = [now EXCEPT ![t] = clock]
  /\ generateLoad(t)
  /\ pc' = [pc EXCEPT ![t] = "actionh"]
  /\ UNCHANGED <<settings, cbVars, mutex, clock, calls, opres, act, ret,
                 ghostVars>>

ActionGenerateStore(t) ==
  /\ pc[t] = "actionh"
  /\ generateStore(t)
  /\ pc' = [pc EXCEPT ![t] = "actioni"]
  /\ UNCHANGED <<settings, state, stats, expiry, mutex, clock, calls, now,
                 opres, act, ret, ghostVars>>

ActionGenerateClear(t) ==
  /\ pc[t] = "actioni"
  /\ generateClear(t, now[t])
  /\ mutex' = Unlock(t)
  /\ ret' = [ret EXCEPT ![t] = opres[t]]
  /\ pc' = [pc EXCEPT ![t] = "return"]
  /\ UNCHANGED <<settings, state, generation, clock, calls, now, opres, act,
                 ghostVars>>

\* Execute or State returns to its caller; its locals are gone
Return(t) ==
  /\ pc[t] = "return"
  /\ pc' = [pc EXCEPT ![t] = "idle"]
  /\ now' = [now EXCEPT ![t] = NoTime]
  /\ opres' = [opres EXCEPT ![t] = OpNil]
  /\ act' = [act EXCEPT ![t] = "nil"]
  /\ ret' = [ret EXCEPT ![t] = "none"]
  /\ invoked' = [invoked EXCEPT ![t] = 0]
  /\ callState' = [callState EXCEPT ![t] = "none"]
  /\ callExpiry' = [callExpiry EXCEPT ![t] = NoTime]
  /\ tripped' = [tripped EXCEPT ![t] = "none"]
  /\ admitted' = [admitted EXCEPT ![t] = 0]
  /\ UNCHANGED <<settings, cbVars, mutex, clock, calls, reg>>

\* ------------------------------------------------------------------- State
CallState(t) ==
  /\ pc[t] = "idle"
  /\ calls < MaxCalls
  /\ calls' = calls + 1
  /\ pc' = [pc EXCEPT ![t] = "S168"]
  /\ UNCHANGED <<settings, cbVars, mutex, clock, now, opres, act, ret,
                 ghostVars, reg>>

\* cb.mutex.Lock()
StateLock(t) ==
  /\ pc[t] = "S168"
  /\ mutex = NoThread
  /\ mutex' = t
  /\ pc' = [pc EXCEPT ![t] = "S171"]
  /\ UNCHANGED <<settings, cbVars, clock, calls, now, opres, act, ret,
                 ghostVars, reg>>

\* now := time.Now()
StateNow(t) ==
  /\ pc[t] = "S171"
  /\ now' = [now EXCEPT ![t] = clock]
  /\ callState' = [callState EXCEPT ![t] = state]
  /\ callExpiry' = [callExpiry EXCEPT ![t] = expiry]
  /\ pc' = [pc EXCEPT ![t] = "S172"]
  /\ UNCHANGED <<settings, cbVars, mutex, clock, calls, opres, act, ret,
                 invoked, tripped, admitted, reg>>

\* cb.currentState(now): the switch
StateCurrentState(t) ==
  /\ pc[t] = "S172"
  /\ pc' = [pc EXCEPT ![t] =
             IF currentStateGenerates(state, expiry, now[t])
             THEN "S172g" ELSE "S173"]
  /\ UNCHANGED <<settings, cbVars, mutex, clock, calls, now, opres, act, ret,
                 ghostVars, reg>>

\* cb.currentState(now): the call of generate
StateGenerate(t) ==
  /\ pc[t] = "S172g"
  /\ generateLoad(t)
  /\ pc' = [pc EXCEPT ![t] = "S172h"]
  /\ UNCHANGED <<settings, cbVars, mutex, clock, calls, now, opres, act, ret,
                 ghostVars>>

StateGenerateStore(t) ==
  /\ pc[t] = "S172h"
  /\ generateStore(t)
  /\ pc' = [pc EXCEPT ![t] = "S172i"]
  /\ UNCHANGED <<settings, state, stats, expiry, mutex, clock, calls, now,
                 opres, act, ret, ghostVars>>

StateGenerateClear(t) ==
  /\ pc[t] = "S172i"
  /\ generateClear(t, now[t])
  /\ pc' = [pc EXCEPT ![t] = "S173"]
  /\ UNCHANGED <<settings, state, generation, mutex, clock, calls, now,
                 opres, act, ret, ghostVars>>

\* return cb.GetState(), and the deferred Unlock
StateReturn(t) ==
  /\ pc[t] = "S173"
  /\ ret' = [ret EXCEPT ![t] = state]
  /\ mutex' = Unlock(t)
  /\ pc' = [pc EXCEPT ![t] = "return"]
  /\ UNCHANGED <<settings, cbVars, clock, calls, now, opres, act, ghostVars, reg>>

\* -------------------------------------------------------------------- Next
Next ==
  \/ Tick
  \/ \E t \in Threads :
       \/ CallExecute(t)
       \/ ExecuteNow(t)
       \/ ExecuteCurrentState(t)
       \/ ExecuteGenerate(t)
       \/ ExecuteGenerateStore(t)
       \/ ExecuteGenerateClear(t)
       \/ ExecuteCheckOpen(t)
       \/ ExecuteCheckHalfOpen(t)
       \/ ExecuteRequest(t)
       \/ ExecuteInvoke(t)
       \/ OperationReturns(t)
       \/ Process(t)
       \/ ActionLock(t)
       \/ ActionBody(t)
       \/ ActionReset(t)
       \/ ActionGenerate(t)
       \/ ActionGenerateStore(t)
       \/ ActionGenerateClear(t)
       \/ Return(t)
       \/ CallState(t)
       \/ StateLock(t)
       \/ StateNow(t)
       \/ StateCurrentState(t)
       \/ StateGenerate(t)
       \/ StateGenerateStore(t)
       \/ StateGenerateClear(t)
       \/ StateReturn(t)

Spec == Init /\ [][Next]_vars

\* ------------------------------------------------- fair specification
\* For the claims about what eventually happens: one breaker, with an
\* interval, a timeout and a predicate that trips on the first failure.
LiveSettings ==
  [MaxRequests |-> 2, Interval |-> 1, Timeout |-> 1, ReadyToTrip |-> "first"]

LiveInit == Init /\ settings = LiveSettings

\* Callers keep calling an Open breaker after the counted calls are used up
KeepCalling(t) ==
  /\ pc[t] = "idle"
  /\ calls = MaxCalls
  /\ state = StateOpen
  /\ pc' = [pc EXCEPT ![t] = "E178"]
  /\ UNCHANGED <<settings, cbVars, mutex, clock, calls, now, opres, act, ret,
                 ghostVars, reg>>

\* any step of goroutine t
ThreadStep(t) ==
  \/ CallExecute(t)
  \/ ExecuteNow(t)
  \/ ExecuteCurrentState(t)
  \/ ExecuteGenerate(t)
  \/ ExecuteGenerateStore(t)
  \/ ExecuteGenerateClear(t)
  \/ ExecuteCheckOpen(t)
  \/ ExecuteCheckHalfOpen(t)
  \/ ExecuteRequest(t)
  \/ ExecuteInvoke(t)
  \/ OperationReturns(t)
  \/ Process(t)
  \/ ActionLock(t)
  \/ ActionBody(t)
  \/ ActionReset(t)
  \/ ActionGenerate(t)
  \/ ActionGenerateStore(t)
  \/ ActionGenerateClear(t)
  \/ Return(t)
  \/ CallState(t)
  \/ StateLock(t)
  \/ StateNow(t)
  \/ StateCurrentState(t)
  \/ StateGenerate(t)
  \/ StateGenerateStore(t)
  \/ StateGenerateClear(t)
  \/ StateReturn(t)
  \/ KeepCalling(t)

LiveNext ==
  \/ Next
  \/ \E t \in Threads : KeepCalling(t)

\* the scheduler runs every goroutine that can take a step, operations
\* return, callers keep calling and time advances
LiveSpec ==
  /\ LiveInit
  /\ [][LiveNext]_vars
  /\ WF_vars(Tick)
  /\ \A t \in Threads : WF_vars(ThreadStep(t))

TypeOK ==
  /\ state \in {StateClosed, StateHalfOpen, StateOpen}
  /\ mutex \in Threads \cup {NoThread}
  /\ clock \in 1..MaxTime

\* ------------------------------------------------------------ vocabulary
States == {StateClosed, StateHalfOpen, StateOpen}

\* goroutine t is inside Execute (a State call returns a state)
InExecute(t) ==
  \/ pc[t] \in {"E178", "E179", "E179g", "E179h", "E179i", "E181", "E185",
                "E189", "E191", "inflight", "E194", "E202", "lock", "action",
                "action2", "actiong", "actionh", "actioni"}
  \/ pc[t] = "return" /\ ret[t] \notin States

\* Execute of goroutine t has returned to its caller's hands
Returned(t) == pc[t] = "return" /\ ret[t] \notin States

\* the call of goroutine t read the clock while the breaker was Open
CalledOpen(t) == InExecute(t) /\ callState[t] = StateOpen

\* goroutine t takes the step that leaves label l
Leaves(t, l) == pc[t] = l /\ pc'[t] # l

\* Open is never left: no rule of init() leaves StateOpen and currentState
\* only calls generate.
OpenIsAbsorbing == [][state = StateOpen => state' = StateOpen]_vars

\* the positions at which a goroutine is between Lock and the deferred Unlock
\* of State or of an input action
LockedLabels == {"S171", "S172", "S172g", "S172h", "S172i", "S173",
                 "action", "action2", "actiong", "actionh", "actioni"}

\* The FSM never holds StateHalfOpen: no rule of init() targets it and
\* currentState only calls generate.
HalfOpenNeverEntered == state # StateHalfOpen

\* ------------------------------------------------------------------ C1
\* C1: while Closed, the step that records a failure leaves the breaker
\* Closed when readyToTrip(stats) is false on the stats just recorded, and
\* leaves it Open when readyToTrip(stats) is true.
C1_TripsExactlyWhenReady ==
  [][\A t \in Threads :
       (Leaves(t, "action2") /\ act[t] = "ClosedNotOkAction") =>
         state' = (IF readyToTrip(stats') THEN StateOpen
                   ELSE StateClosed)]_vars

\* ------------------------------------------------------------------ C2
\* C2: an Execute call that reads the clock while the breaker is Open and
\* strictly before expiry never gets past the admission test: the guarded
\* operation is not invoked and the call returns ErrOpenState.
C2_OpenRejectsBeforeExpiry ==
  \A t \in Threads :
    (CalledOpen(t) /\ now[t] < callExpiry[t]) =>
      /\ pc[t] \in {"E179", "E179g", "E179h", "E179i", "E181", "return"}
      /\ invoked[t] = 0
      /\ pc[t] = "return" => ret[t] = ErrOpenState

C2_Witness ==
  \E t \in Threads :
    /\ Returned(t)
    /\ callState[t] = StateOpen
    /\ now[t] < callExpiry[t]
    /\ ret[t] = ErrOpenState
    /\ invoked[t] = 0

\* ------------------------------------------------------------------ C3
\* C3: an Execute call that reads the clock while the breaker is Open, with
\* expiry set, at a time now >= expiry is admitted: the breaker is Half-Open when the
\* operation is invoked, the call is not rejected with ErrOpenState and the
\* operation runs.
C3_OpenExpiredAdmits ==
  \A t \in Threads :
    (CalledOpen(t) /\ callExpiry[t] # NoTime /\ now[t] >= callExpiry[t]) =>
      /\ pc[t] = "E185" => (state = StateHalfOpen /\ AllZero(stats))
      /\ pc[t] = "return" => (ret[t] # ErrOpenState /\ invoked[t] = 1)

C8_ReturnsOperationResult ==
  \A t \in Threads :
    /\ invoked[t] <= 1
    /\ Returned(t) =>
         IF invoked[t] = 1 THEN ret[t] = opres[t]
         ELSE ret[t] \in {ErrOpenState, ErrTooManyRequests}

\* ------------------------------------------------------------------ C9
\* C9: no outcome is fed to the state machine in a state that has no rule
\* for it, and Execute never returns the invalid-transition error.
C9_NoInvalidTransition ==
  \A t \in Threads :
    /\ pc[t] \in {"E194", "E202"} => HasRule(state, InputOf(opres[t]))
    /\ ret[t] # ErrInvalidTransition

\* ------------------------------------------------------------------ C10
\* C10: every step of Execute and State that reads or writes state, stats,
\* expiry or generation is taken by the goroutine holding cb.mutex.
C10_AccessUnderMutex ==
  \A t \in Threads :
    pc[t] \in {"E179", "E179g", "E179h", "E179i", "E181", "E185", "E189",
               "S172", "S172g", "S172h", "S172i", "S173"} => mutex = t

\* ------------------------------------------------------------------ C11
\* C11: cb.mutex is not held while a guarded operation runs: whoever holds
\* the mutex is inside State or inside an input action, never at the call of
\* req() nor inside it, so the mutex is free or held by another caller that
\* is completing its own call.
C11_MutexFreeDuringOperation ==
  \A t \in Threads :
    /\ mutex = t => pc[t] \in LockedLabels
    /\ pc[t] \in {"E191", "inflight"} => mutex # t

\* one operation is in flight while another caller has taken the lock and
\* is about to return from State
C11_Witness ==
  \E t, u \in Threads :
    /\ t # u
    /\ pc[t] = "inflight"
    /\ mutex = u
    /\ pc[u] = "S173"

\* ------------------------------------------------------------------ C12
\* C12: no state is terminal: when the breaker is Open, time advances,
\* callers keep calling and operations return, the breaker is eventually
\* Closed again.
C12_EventuallyClosedAgain == (state = StateOpen) ~> (state = StateClosed)

\* ------------------------------------------------------------------ C13
\* C13: New applies the documented defaults and nothing else: MaxRequests 0
\* gives maxRequests 1, Timeout 0 gives 60 seconds, a nil ReadyToTrip gives
\* ConsecutiveFailures > 5 (false at 5, true at 6); what is set is kept as
\* given (MaxRequests 2, Timeout 1, Interval, the given predicate); the new
\* breaker is Closed with all counters zero.
C13_NewAppliesDefaults ==
  /\ settings.MaxRequests = 0 => maxRequests = 1
  /\ settings.MaxRequests = 2 => maxRequests = 2
  /\ settings.Timeout = 0 => timeout = 60
  /\ settings.Timeout = 1 => timeout = 1
  /\ interval = settings.Interval
  /\ settings.ReadyToTrip = "nil" =>
       /\ ~readyToTrip([ZeroStats EXCEPT !.ConsecutiveFailures = 5])
       /\ readyToTrip([ZeroStats EXCEPT !.ConsecutiveFailures = 6])
  /\ settings.ReadyToTrip = "first" =>
       /\ ~readyToTrip(ZeroStats)
       /\ readyToTrip([ZeroStats EXCEPT !.ConsecutiveFailures = 1])
  /\ settings.ReadyToTrip = "ratio" =>
       /\ ~readyToTrip([ZeroStats EXCEPT !.ConsecutiveFailures = 6])
       /\ readyToTrip([ZeroStats EXCEPT !.Requests = 3, !.TotalFailures = 2])
  /\ calls = 0 =>
       /\ state = StateClosed
       /\ AllZero(stats)
       /\ generation = 1
       /\ (expiry = NoTime) = (settings.Interval = 0)

\* a breaker built from the zero Settings whose default predicate has been
\* asked about one consecutive failure and has not tripped
C13_Witness ==
  /\ settings.MaxRequests = 0
  /\ settings.Timeout = 0
  /\ settings.ReadyToTrip = "nil"
  /\ \E t \in Threads : tripped[t] = "no" /\ stats.ConsecutiveFailures = 1

\* ------------------------------------------------------------------ C14
\* C14: in every reachable state TotalSuccesses + TotalFailures <= Requests.
C14_OutcomesWithinRequests ==
  WideLeq(Sum(stats.TotalSuccesses, stats.TotalFailures),
          <<Hi(stats.Requests), Lo(stats.Requests)>>)

\* ------------------------------------------------------------------ C15
\* C15: whenever no success() or failure() is half-way, ConsecutiveSuccesses
\* and ConsecutiveFailures are not both non-zero; the step that completes
\* success() leaves ConsecutiveFailures = 0 and ConsecutiveSuccesses >= 1,
\* and the step that completes failure() leaves ConsecutiveSuccesses = 0 and
\* ConsecutiveFailures >= 1.
C15_StreaksExclusive ==
  /\ []( (\A t \in Threads : pc[t] # "action2") =>
           ~(stats.ConsecutiveSuccesses # 0 /\ stats.ConsecutiveFailures # 0) )
  /\ [][\A t \in Threads :
          /\ (Leaves(t, "action2") /\ RunAction(act[t]).records = "success") =>
               /\ stats'.ConsecutiveFailures = 0
               /\ Less32(0, stats'.ConsecutiveSuccesses)
          /\ (Leaves(t, "action2") /\ RunAction(act[t]).records = "failure") =>
               /\ stats'.ConsecutiveSuccesses = 0
               /\ Less32(0, stats'.ConsecutiveFailures)]_vars

\* ------------------------------------------------------------------ C16
\* C16: every change of the breaker's state starts a new generation: the
\* call whose input changed the state goes on to generate once its action
\* has recorded the outcome, the step that completes generate leaves all
\* counters zero and expiry as the rule of the current state sets it, and
\* no step decreases the generation counter.
C16_StateChangeStartsGeneration ==
  [][/\ generation' >= generation
     /\ \A t \in Threads :
          /\ ( /\ Leaves(t, "E194") \/ Leaves(t, "E202")
               /\ state' # state ) => act'[t] # "nil"
          /\ (Leaves(t, "action2") /\ ChangesState(act[t])) =>
               pc'[t] = "actiong"
          /\ Leaves(t, "actioni") =>
               /\ AllZero(stats')
               /\ expiry' = generateExpiry(state', now[t])]_vars

\* ------------------------------------------------------------------ C17
\* C17: whenever no input action is under way, expiry has the shape of the
\* current state: Open has expiry set, at most timeout after the present
\* time; Half-Open has expiry unset; Closed has expiry unset when
\* interval = 0 and otherwise set, at most interval after the present time.
C17_ExpiryMatchesState ==
  (\A t \in Threads : pc[t] \notin {"lock"} \cup LockedLabels) =>
    /\ state = StateOpen => (expiry # NoTime /\ expiry <= clock + timeout)
    /\ state = StateHalfOpen => expiry = NoTime
    /\ state = StateClosed =>
         IF interval = 0 THEN expiry = NoTime
         ELSE expiry # NoTime /\ expiry <= clock + interval

\* ------------------------------------------------------------------ C18
\* C18: the outcome of a call admitted in an earlier generation, fed after
\* the generation has changed, does not change the breaker's state and does
\* not alter the Stats counters.
C18_StaleOutcomeIgnored ==
  [][\A t \in Threads :
       admitted[t] # generation =>
         /\ (Leaves(t, "E194") \/ Leaves(t, "E202")) => state' = state
         /\ Leaves(t, "action") => stats' = stats]_vars

\* ------------------------------------------------------------------ C19
\* C19: an Execute call that is rejected changes nothing: while the breaker
\* is Open (every call is then rejected at line 181) no step of the call up
\* to its rejection changes state, Stats, expiry or generation, and a call
\* that has returned ErrOpenState or ErrTooManyRequests has not counted a
\* request, has not invoked the operation and has fed no input.
C19_RejectionChangesNothing ==
  /\ [](\A t \in Threads :
          (Returned(t) /\ ret[t] \in {ErrOpenState, ErrTooManyRequests}) =>
            (admitted[t] = 0 /\ invoked[t] = 0 /\ act[t] = "nil"))
  /\ [][\A t \in Threads :
          ( /\ state = StateOpen
            /\ pc[t] \in {"E178", "E179", "E179g", "E179h", "E179i", "E181"}
            /\ pc'[t] # pc[t] ) => cbVars' = cbVars]_vars

\* ------------------------------------------------------------------ C20
\* C20: no call blocks for ever on cb.mutex: a goroutine about to Lock does
\* not hold the mutex already, whoever holds the mutex releases it, and
\* under fair scheduling every State and Execute call that has started
\* returns.
C20_NoCallBlocksForever ==
  /\ [](\A t \in Threads : pc[t] \in {"S168", "lock"} => mutex # t)
  /\ \A t \in Threads : (mutex = t) ~> (mutex # t)
  /\ \A t \in Threads : (pc[t] # "idle") ~> (pc[t] = "return")

\* a goroutine waits for the mutex another one holds
C20_Witness ==
  \E t, u \in Threads :
    /\ t # u
    /\ pc[t] \in {"S168", "lock"}
    /\ mutex = u
====
